---- MODULE Spec2Model ----
(***************************************************************************)
(* A model of django-combinedform (src/combinedform/combinedform.py):      *)
(* the dependency ordering of models (order_by_dependency,                 *)
(* get_model_dependencies) and CombinedForm.save().                        *)
(*                                                                         *)
(* Spec:     a call of order_by_dependency or of get_model_dependencies    *)
(*           on any declaration of the model classes and any argument.     *)
(* SpecSave: save() of a CombinedForm, one step per loop iteration.        *)
(*                                                                         *)
(* A model class is a name of Models.  Its _meta.fields is the automatic   *)
(* primary key field followed by its ForeignKey fields; fields[m] is the   *)
(* sequence of the targets (f.rel.to) of the ForeignKey fields of m, and   *)
(* the i-th ForeignKey of m is named by its position i.                    *)
(***************************************************************************)
EXTENDS Integers, Sequences, FiniteSets, TLC

VARIABLES
    fields,     \* the declared model classes: model -> targets of its ForeignKeys
    models,     \* the argument of the call (a list of model classes)
    pc,         \* "ready", then the call that was made
    result,     \* what order_by_dependency(models) did
    dep_model,  \* the model argument of get_model_dependencies
    deps,       \* what list(get_model_dependencies(dep_model, models)) returned
    \* a CombinedForm instance and its save(commit, main_form)
    forms,      \* the Subforms of the class, in the order of _formnames
    commit,     \* the commit argument of save
    main_form,  \* the main_form argument of save
    main_attr,  \* the main_form instance or class attribute (None: not set)
    save_order, \* save's local save_order
    todo,       \* the models of save_order the loop of save has not reached
    inst_map,   \* save's local inst_map: model -> what its subform's save returned
    retval_map, \* save's local formname_retval_map
    attrs,      \* the attributes set on instances: <<instance, field name>> -> value
    log,        \* the calls made on subforms and instances, in order
    retval,     \* what save returned
    \* the CombinedForm classes of the process and a caller of keys()
    counter,    \* Subform.__creation_counter
    classes,    \* the classes built by CombinedFormMetaclass, CombinedForm first
    heap,       \* the list objects: id -> the list's items
    got,        \* the id of the list the last keys() returned (None: no call yet)
    got_cls,    \* the class of the instance keys() or iter() was called on
    yielded,    \* what the last iteration over an instance yielded
    \* the construction of an instance: CombinedForm.__init__(*args, **kwargs)
    decl,       \* subform name -> the args and kwargs its Subform was declared with
    call_args,  \* the positional arguments of the construction
    call_kwargs,\* the keyword arguments of the construction
    made,       \* subform name -> the args and kwargs its form class was called with
    \* an instance with bound subforms and its errors property
    bound,      \* subform name -> the form or formset and its errors
    errs,       \* what the errors property returned
    \* calls of order_by_dependency(models) in progress at several call sites
    calls,      \* call site -> where the call is, its locals and its outcome
    dicts,      \* the dict objects of the process: id -> nodemap
    \* one call of order_by_dependency(models), its recursion step by step
    graph,      \* the nodemap of the call
    weights,    \* the depths computed so far, in the order of nodemap.values()
    frames      \* the calls of Node.depth in progress, outermost first

keyvars == <<counter, classes, heap, got, got_cls, yielded>>
ctorvars == <<decl, call_args, call_kwargs, made>>
errvars == <<bound, errs>>
callvars == <<calls, dicts>>
depthvars == <<graph, weights, frames>>
aftercalls == <<depthvars>>
aftererrs == <<callvars, aftercalls>>
afterctor == <<errvars, aftererrs>>
afterkeys == <<ctorvars, afterctor>>
latervars == <<keyvars, afterkeys>>
ordervars == <<models, result, dep_model, deps>>
savevars == <<forms, commit, main_form, main_attr, save_order, todo, inst_map,
              retval_map, attrs, log, retval>>
vars == <<fields, pc, ordervars, savevars, latervars>>

\* ------------------------------------------------------------------ bounds

\* The model classes that exist in the process.
Models == {"Foo", "Bar", "Buzz"}

\* At most MaxFK ForeignKey fields are declared over all model classes.
MaxFK == 3

\* The argument of order_by_dependency has at most MaxLen entries.
MaxLen == 3

\* The names a CombinedForm class gives its Subforms, in declaration order; a
\* class declares a prefix of them.
FormNames == <<"form_a", "form_b", "form_c">>

\* The model classes of a CombinedForm that is saved have at most MaxSaveFK
\* ForeignKey fields in all.
MaxSaveFK == 2

\* A formset subform holds FormsetSize filled forms.
FormsetSize == 2

\* ----------------------------------------------------------------- helpers

Range(s) == {s[i] : i \in DOMAIN s}

SeqsUpTo(S, n) == UNION {[1..k -> S] : k \in 0..n}

RECURSIVE SumLen(_, _)
SumLen(f, S) ==
    IF S = {} THEN 0
    ELSE LET m == CHOOSE x \in S : TRUE
         IN Len(f[m]) + SumLen(f, S \ {m})

Max(S) == CHOOSE x \in S : \A y \in S : y <= x

\* Position of the first occurrence of x in s (0 when absent).
IndexOf(s, x) ==
    IF x \in Range(s) THEN CHOOSE i \in DOMAIN s : s[i] = x /\ \A j \in 1..(i-1) : s[j] # x
    ELSE 0

\* ------------------------------------------------------------ model classes

\* model._meta.fields: the "id" AutoField, then the ForeignKey fields.
MetaFields(flds, model) ==
    <<[name |-> 0, fk |-> FALSE, to |-> model]>> \o
    [i \in 1..Len(flds[model]) |-> [name |-> i, fk |-> TRUE, to |-> flds[model][i]]]

\* --------------------------------------------------- get_model_dependencies

\* A list is truthy when it is not empty (the `or` of line 439).  Both callers
\* pass a list; the default None is falsy like the empty list.
Truthy(lst) == Len(lst) > 0

\* get_model_dependencies without the test on relevant_models.
get_model_dependencies_unfiltered(flds, model, relevant_models) ==
    SelectSeq(MetaFields(flds, model), LAMBDA f : f.fk)

\* (f for f in model._meta.fields if isinstance(f, ForeignKey)
\*    and f.rel.to in (relevant_models or [f.rel.to]))
get_model_dependencies(flds, model, relevant_models) ==
    SelectSeq(MetaFields(flds, model),
              LAMBDA f : /\ f.fk
                         /\ f.to \in Range(IF Truthy(relevant_models)
                                           THEN relevant_models ELSE <<f.to>>))

\* ------------------------------------------------------ order_by_dependency

\* nodemap: a dict, which keeps the order its keys were inserted in.  A Node
\* is identified by its model; nm.dependents[m] is Node(m).dependents.
EmptyNodemap == [keys |-> <<>>, dependents |-> <<>>]

NodeDependents(nm, key) == nm.dependents[IndexOf(nm.keys, key)]

\* get_nodemap(key): the value at key, or a new empty Node stored at key.
get_nodemap(nm, key) ==
    IF key \in Range(nm.keys) THEN nm
    ELSE [keys |-> Append(nm.keys, key), dependents |-> Append(nm.dependents, <<>>)]

\* Node.add_dependent: self.dependents.append(dep)
add_dependent(nm, key, dep) ==
    [nm EXCEPT !.dependents[IndexOf(nm.keys, key)] = Append(@, dep)]

\* The inner loop of lines 494-497 over the remaining fields fks.
RECURSIVE LinkDependencies(_, _, _)
LinkDependencies(nm, self, fks) ==
    IF fks = <<>> THEN nm
    ELSE LET fkmodel == Head(fks).to
             nm1 == get_nodemap(nm, fkmodel)
         IN LinkDependencies(add_dependent(nm1, fkmodel, self), self, Tail(fks))

\* One iteration of the loop of lines 491-497.
LoopBody(flds, nm, model, mods) ==
    LinkDependencies(get_nodemap(nm, model), model,
                     get_model_dependencies(flds, model, mods))

\* The loop of lines 491-497 over the remaining models rest.
RECURSIVE BuildNodemap(_, _, _, _)
BuildNodemap(flds, nm, rest, mods) ==
    IF rest = <<>> THEN nm
    ELSE BuildNodemap(flds, LoopBody(flds, nm, Head(rest), mods), Tail(rest), mods)

\* The value of a depth that never returns: the recursion of Node.depth has
\* no base case on a cycle and ends in RecursionError.
Diverges == -1

\* Node.depth without the recursion: 1 for every node that has dependents.
DepthOneLevel(nm, key, stack) ==
    IF NodeDependents(nm, key) = <<>> THEN 0 ELSE 1

\* Node.depth.  stack holds the nodes whose depth is being computed: reaching
\* one of them again means the recursion repeats itself for ever.
RECURSIVE Depth(_, _, _)
Depth(nm, key, stack) ==
    IF key \in stack THEN Diverges
    ELSE LET ds == NodeDependents(nm, key)
             sub == {Depth(nm, ds[i], stack \cup {key}) : i \in DOMAIN ds}
         IN IF ds = <<>> THEN 0
            ELSE IF Diverges \in sub THEN Diverges
            ELSE 1 + Max(sub)

\* list.insert keeping the order of sorted(..., reverse=True): e goes after
\* every element whose key is >= its own (the sort is stable).
RECURSIVE InsertDescending(_, _)
InsertDescending(sorted, e) ==
    IF sorted = <<>> THEN <<e>>
    ELSE IF Head(sorted)[1] >= e[1] THEN <<Head(sorted)>> \o InsertDescending(Tail(sorted), e)
    ELSE <<e>> \o sorted

\* The same for a sort without reverse=True.
InsertAscending(sorted, e) ==
    LET RECURSIVE Ins(_)
        Ins(s) == IF s = <<>> THEN <<e>>
                  ELSE IF Head(s)[1] <= e[1] THEN <<Head(s)>> \o Ins(Tail(s))
                  ELSE <<e>> \o s
    IN Ins(sorted)

\* sorted(tuples, key=lambda tup: tup[0], reverse=True)
InsertSorted(sorted, e) == InsertDescending(sorted, e)

RECURSIVE SortedReverse(_)
SortedReverse(tuples) ==
    IF tuples = <<>> THEN <<>>
    ELSE InsertSorted(SortedReverse(SubSeq(tuples, 1, Len(tuples) - 1)),
                      tuples[Len(tuples)])

\* order_by_dependency without the sort: the keys of nodemap as inserted.
order_as_inserted(flds, mods) ==
    [status |-> "returned", value |-> BuildNodemap(flds, EmptyNodemap, mods, mods).keys]

\* order_by_dependency(models): the list returned, or RecursionError.
order_by_dependency(flds, mods) ==
    LET nodemap == BuildNodemap(flds, EmptyNodemap, mods, mods)
        weighted == [i \in DOMAIN nodemap.keys |->
                        <<Depth(nodemap, nodemap.keys[i], {}), nodemap.keys[i]>>]
        sortedmodels == SortedReverse(weighted)
    IN IF \E i \in DOMAIN weighted : weighted[i][1] = Diverges
       THEN [status |-> "RecursionError", value |-> <<>>]
       ELSE [status |-> "returned",
             value |-> [i \in DOMAIN sortedmodels |-> sortedmodels[i][2]]]

\* ------------------------------------------------------------ state machine

NoResult == [status |-> "none", value |-> <<>>]

\* The declarations of the model classes: every way to give the classes at
\* most MaxFK ForeignKeys in all.
Declarations ==
    {f \in [Models -> SeqsUpTo(Models, MaxFK)] : SumLen(f, Models) <= MaxFK}

\* Python's None, and a falsy value that is not None (the empty string).
None == "None"
Falsy == ""

EmptyMap == [x \in {} |-> x]

\* The save variables of a process that has built no CombinedForm.
NoForm ==
    /\ forms = <<>>
    /\ commit = FALSE
    /\ main_form = None
    /\ main_attr = None
    /\ save_order = <<>>
    /\ todo = <<>>
    /\ inst_map = EmptyMap
    /\ retval_map = EmptyMap
    /\ attrs = EmptyMap
    /\ log = <<>>
    /\ retval = None

\* The variables of the class declarations, in a process that reads none.
NoDepth ==
    /\ graph = [keys |-> <<>>, dependents |-> <<>>]
    /\ weights = <<>>
    /\ frames = <<>>

NoCalls ==
    /\ calls = EmptyMap
    /\ dicts = EmptyMap

NoBound ==
    /\ bound = EmptyMap
    /\ errs = EmptyMap

NoInstance ==
    /\ decl = EmptyMap
    /\ call_args = <<>>
    /\ call_kwargs = EmptyMap
    /\ made = EmptyMap

NoClasses ==
    /\ counter = 0
    /\ classes = <<>>
    /\ heap = EmptyMap
    /\ got = None
    /\ got_cls = None
    /\ yielded = <<>>

Init ==
    /\ fields \in Declarations
    /\ models \in SeqsUpTo(Models, MaxLen)
    /\ pc = "ready"
    /\ result = NoResult
    /\ dep_model = None
    /\ deps = <<>>
    /\ NoForm
    /\ NoClasses
    /\ NoInstance
    /\ NoBound
    /\ NoCalls
    /\ NoDepth

\* order_by_dependency(models)
CallOrder ==
    /\ pc = "ready"
    /\ result' = order_by_dependency(fields, models)
    /\ pc' = "ordered"
    /\ UNCHANGED <<latervars, fields, models, dep_model, deps, savevars>>

\* list(get_model_dependencies(model, models))
CallDependencies ==
    /\ pc = "ready"
    /\ \E model \in Models :
          /\ dep_model' = model
          /\ deps' = get_model_dependencies(fields, model, models)
    /\ pc' = "dependencies"
    /\ UNCHANGED <<latervars, fields, models, result, savevars>>

Next == CallOrder \/ CallDependencies

Spec == Init /\ [][Next]_vars

\* ---------------------------------------------------- CombinedForm.save

\* The subforms a class that is saved can declare: each a ModelForm ("form")
\* or a model formset ("formset") of one of the model classes (save reads
\* the model of every subform, line 349).
Subforms == [model : Models, kind : {"form", "formset"}]

FormClasses == UNION {[1..n -> Subforms] : n \in 0..Len(FormNames)}

\* keys(): the names of the subforms, in declaration order.
keys(fs) == [i \in DOMAIN fs |-> FormNames[i]]

FormIndex(name) == CHOOSE i \in DOMAIN FormNames : FormNames[i] = name

\* An instance of a model is named by the subform that built it and its
\* position there (0: the instance of a ModelForm).  What a subform's
\* save(commit=False) returns: the instance of a ModelForm, which is not an
\* Iterable, or the list of the instances of a formset.
FormSave(fs, name) ==
    IF fs[FormIndex(name)].kind = "form"
    THEN [iterable |-> FALSE, items |-> <<<<name, 0>>>>]
    ELSE [iterable |-> TRUE, items |-> [i \in 1..FormsetSize |-> <<name, i>>]]

\* _modelformmap(): a dict from model to form name.  A dict keeps a key at
\* the place of its first insertion and the value of its last.
ModelFormMap(fs) ==
    LET ms == [i \in DOMAIN fs |-> fs[i].model]
    IN [keys |-> SelectSeq([i \in DOMAIN ms |-> <<i, ms[i]>>],
                           LAMBDA p : IndexOf(ms, p[2]) = p[1]),
        formname |-> [m \in Range(ms) |->
                        FormNames[Max({i \in DOMAIN ms : ms[i] = m})]]]

\* list(model_form_map.keys())
ModelKeys(fs) ==
    LET ks == ModelFormMap(fs).keys IN [i \in DOMAIN ks |-> ks[i][2]]

\* d[key] = value on a dict without order
SetItem(d, key, value) ==
    [x \in DOMAIN d \cup {key} |-> IF x = key THEN value ELSE d[x]]

\* for i in inst: setattr(i, name, owner)
RECURSIVE SetAttrs(_, _, _, _)
SetAttrs(at, items, name, owner) ==
    IF items = <<>> THEN at
    ELSE SetAttrs(SetItem(at, <<Head(items), name>>, owner), Tail(items), name, owner)

\* The loop of lines 407-411 over the remaining dependencies: the attributes
\* when it ends, and whether inst_map[dependency.rel.to] raised KeyError.
RECURSIVE LinkInstances(_, _, _, _)
LinkInstances(at, imap, items, dependencies) ==
    IF dependencies = <<>> THEN [raised |-> FALSE, attrs |-> at]
    ELSE LET dependency == Head(dependencies)
         IN IF dependency.to \notin DOMAIN imap
            THEN [raised |-> TRUE, attrs |-> at]
            ELSE LinkInstances(SetAttrs(at, items, dependency.name, imap[dependency.to]),
                               imap, items, Tail(dependencies))

\* Lines 414-418 without the test of commit.
WritesAlways(c, name, items) ==
    [i \in DOMAIN items |-> [op |-> "inst.save", on |-> items[i], commit |-> TRUE]]
    \o <<[op |-> "save_m2m", on |-> name, commit |-> TRUE]>>

\* Lines 414-418: i.save() for every instance and form.save_m2m() (which a
\* ModelForm and a formset both have once saved with commit=False), when
\* commit is set.
Writes(c, name, items) ==
    IF c
    THEN [i \in DOMAIN items |-> [op |-> "inst.save", on |-> items[i], commit |-> TRUE]]
         \o <<[op |-> "save_m2m", on |-> name, commit |-> TRUE]>>
    ELSE <<>>

\* The model classes of a form that is saved.
SaveDeclarations == {f \in Declarations : SumLen(f, Models) <= MaxSaveFK}

InitSave ==
    /\ fields \in SaveDeclarations
    /\ forms \in FormClasses
    /\ pc = "constructed"
    /\ models = <<>> /\ result = NoResult /\ dep_model = None /\ deps = <<>>
    /\ commit = FALSE
    /\ main_form = None
    /\ main_attr = None
    /\ save_order = <<>>
    /\ todo = <<>>
    /\ inst_map = EmptyMap
    /\ retval_map = EmptyMap
    /\ attrs = EmptyMap
    /\ log = <<>>
    /\ retval = None
    /\ NoClasses
    /\ NoInstance
    /\ NoBound
    /\ NoCalls
    /\ NoDepth

\* save(commit=c, ...) up to the loop: the assertion of line 380, which fails
\* when is_valid() is false, and lines 382-385.
SaveBegin ==
    /\ pc = "constructed"
    /\ \E valid \in BOOLEAN, c \in BOOLEAN :
          LET order == order_by_dependency(fields, ModelKeys(forms))
          IN /\ commit' = c
             /\ IF ~valid THEN pc' = "AssertionError" /\ UNCHANGED <<save_order, todo>>
                ELSE IF order.status = "RecursionError"
                THEN pc' = "RecursionError" /\ UNCHANGED <<save_order, todo>>
                ELSE pc' = "saving" /\ save_order' = order.value /\ todo' = order.value
    /\ UNCHANGED <<latervars, fields, ordervars, forms, main_form, main_attr, inst_map,
                   retval_map, attrs, log, retval>>

\* One iteration of the loop of lines 386-421, for the next model of
\* save_order.  The subform's save may raise ValidationError, which save
\* turns into SubformError (lines 391-395).
SaveModel ==
    /\ pc = "saving" /\ todo # <<>>
    /\ \E raises \in BOOLEAN :
       LET model == Head(todo)
           formname == ModelFormMap(forms).formname[model]
           inst == FormSave(forms, formname)
           called == Append(log, [op |-> "form.save", on |-> formname, commit |-> FALSE])
           imap == SetItem(inst_map, model, inst)
           linked == LinkInstances(attrs, imap, inst.items,
                                   get_model_dependencies(fields, model, save_order))
       IN IF raises
          THEN /\ pc' = "SubformError"
               /\ log' = called
               /\ UNCHANGED <<todo, inst_map, attrs, retval_map>>
          ELSE /\ inst_map' = imap
               /\ attrs' = linked.attrs
               /\ IF linked.raised
                  THEN /\ pc' = "KeyError inst_map"
                       /\ log' = called
                       /\ UNCHANGED <<todo, retval_map>>
                  ELSE /\ pc' = "saving"
                       /\ log' = called \o Writes(commit, formname, inst.items)
                       /\ retval_map' = SetItem(retval_map, formname, inst)
                       /\ todo' = Tail(todo)
    /\ UNCHANGED <<latervars, fields, ordervars, forms, commit, main_form, main_attr,
                   save_order, retval>>

\* The values save can be given as main_form, and the attribute can hold:
\* None, a falsy value that is not None, the name of a subform.
MainFormValues(fs) == {None, Falsy} \cup Range(keys(fs))

\* Lines 424-429, for the main_form argument arg and the main_form attribute
\* attr of the form (neither is read before): the subform's result, or the
\* dict, or the KeyError of formname_retval_map[main_form].
SaveReturn ==
    /\ pc = "saving" /\ todo = <<>>
    /\ \E arg \in MainFormValues(forms), attr \in MainFormValues(forms) \ {Falsy} :
          LET chosen == IF arg = None THEN attr ELSE arg
          IN /\ main_form' = arg
             /\ main_attr' = attr
             /\ IF chosen \notin {None, Falsy}
                THEN IF chosen \in DOMAIN retval_map
                     THEN pc' = "returned" /\ retval' = [dict |-> FALSE, value |-> retval_map[chosen]]
                     ELSE pc' = "KeyError main_form" /\ UNCHANGED retval
                ELSE pc' = "returned" /\ retval' = [dict |-> TRUE, value |-> retval_map]
    /\ UNCHANGED <<latervars, fields, ordervars, forms, commit, save_order, todo, inst_map,
                   retval_map, attrs, log>>

NextSave == SaveBegin \/ SaveModel \/ SaveReturn

SpecSave == InitSave /\ [][NextSave]_vars

\* ------------------------------------- CombinedFormMetaclass and keys()

\* The classes of the process: CombinedForm itself, then the classes the
\* program declares, each with one of the others among its bases.
ClassNames == <<"CombinedForm", "Parent", "Child">>

\* A base that is no CombinedForm (object, a mixin): it has no _forms.
Mixin == "Mixin"

\* A class body is a sequence of statements  name = Subform(...)  or
\* validators = (...), each evaluated at its place in the body, with at most
\* MaxBody statements and one statement per name.
MaxBody == 2

Statements ==
    [name : Range(FormNames), subform : {TRUE}] \cup
    [name : {"validators"}, subform : {FALSE}]

ClassBodies ==
    {b \in SeqsUpTo(Statements, MaxBody) :
        \A i, j \in DOMAIN b : i # j => b[i].name # b[j].name}

\* Subform.__init__, for the statement at place i of a body evaluated when
\* the creation counter is c0: self._ordering = the counter, which each
\* Subform built before it in the body has raised by one.
SubformOrdering(body, i, c0) ==
    c0 + Cardinality({j \in 1..(i - 1) : body[j].subform})

\* dct, the namespace of the class body: a dict, read here only through a
\* sort, so its order does not matter.
ClassDict(body, c0, cls) ==
    {[name |-> body[i].name, subform |-> body[i].subform,
      ordering |-> SubformOrdering(body, i, c0),
      formclass |-> <<cls, body[i].name>>] : i \in DOMAIN body}

\* sorted(ordernums_names): the tuples by ordering number (the numbers of
\* the Subforms of one body differ, so the names never decide).
RECURSIVE SortedTuples(_)
SortedTuples(S) ==
    IF S = {} THEN <<>>
    ELSE LET m == CHOOSE x \in S : \A y \in S : x[1] <= y[1]
         IN <<m>> \o SortedTuples(S \ {m})

\* The names of the subclass put before those of the parent.
InheritAfter(parentnames, names) == names \o parentnames

\* Line 80: formnames = parent._formnames + formnames
InheritFormnames(parentnames, names) == parentnames \o names

\* CombinedFormMetaclass.__init__ for class number cls: _forms, and the
\* items of the new list _formnames.
MetaclassInit(cls, bases, dct, clss, hp) ==
    LET subs == {d \in dct : d.subform}
        sorted == SortedTuples({<<d.ordering, d.name>> : d \in subs})
        formnames == [i \in DOMAIN sorted |-> sorted[i][2]]
        own == [n \in {d.name : d \in subs} |->
                   (CHOOSE d \in subs : d.name = n).formclass]
        formbases == SelectSeq(bases, LAMBDA b : b # Mixin)
    IN IF formbases = <<>>
       THEN [forms |-> own, formnames |-> formnames]
       ELSE LET parent == clss[IndexOf(ClassNames, Head(formbases))]
            IN [forms |-> [n \in DOMAIN own \cup DOMAIN parent.forms |->
                              IF n \in DOMAIN parent.forms THEN parent.forms[n]
                              ELSE own[n]],
                formnames |-> InheritFormnames(hp[parent.formnames], formnames)]

\* The base lists a new class can have: one class built before, alone, with
\* a mixin, or followed by CombinedForm itself.
BaseLists(clss) ==
    LET built == {ClassNames[i] : i \in DOMAIN clss}
    IN UNION {{<<p>>, <<Mixin, p>>, <<p, Mixin>>} : p \in built} \cup
       {<<p, Head(ClassNames)>> : p \in built \ {Head(ClassNames)}}

\* The id of the list a call of keys() builds; the list _formnames of class
\* number i has id i.
RetId == 0

\* keys() returning self._formnames itself.
keys_alias(hp, listid) == [id |-> listid, heap |-> hp]

\* keys(): list(self._formnames), a new list with the same items.
keys_copy(hp, listid) == [id |-> RetId, heap |-> SetItem(hp, RetId, hp[listid])]

InitKeys ==
    /\ pc = "imported"
    /\ counter = 0
    /\ classes = <<[bases |-> <<Mixin>>, body |-> <<>>, formnames |-> 1,
                    forms |-> MetaclassInit(1, <<Mixin>>, {}, <<>>, EmptyMap).forms]>>
    /\ heap = SetItem(EmptyMap, 1, MetaclassInit(1, <<Mixin>>, {}, <<>>, EmptyMap).formnames)
    /\ got = None
    /\ got_cls = None
    /\ yielded = <<>>
    /\ fields = [m \in Models |-> <<>>]
    /\ models = <<>> /\ result = NoResult /\ dep_model = None /\ deps = <<>>
    /\ NoForm
    /\ NoInstance
    /\ NoBound
    /\ NoCalls
    /\ NoDepth

\* A class statement: the body is evaluated, then CombinedFormMetaclass.__init__
\* builds the class.
DefineClass ==
    /\ pc = "imported"
    /\ Len(classes) < Len(ClassNames)
    /\ \E body \in ClassBodies, bases \in BaseLists(classes) :
          LET cls == Len(classes) + 1
              built == MetaclassInit(cls, bases, ClassDict(body, counter, cls),
                                     classes, heap)
          IN /\ counter' = counter + Cardinality({i \in DOMAIN body : body[i].subform})
             /\ classes' = Append(classes, [bases |-> bases, body |-> body,
                                            formnames |-> cls, forms |-> built.forms])
             /\ heap' = SetItem(heap, cls, built.formnames)
    /\ UNCHANGED <<afterkeys, fields, pc, ordervars, savevars, got, got_cls, yielded>>

\* keys() on an instance of class cls; the caller keeps the list returned.
KeysCall ==
    /\ pc \in {"imported", "keys", "mutated"}
    /\ \E cls \in DOMAIN classes :
          LET r == keys_copy(heap, classes[cls].formnames)
          IN /\ got' = r.id
             /\ heap' = r.heap
             /\ got_cls' = cls
    /\ pc' = "keys"
    /\ UNCHANGED <<afterkeys, fields, ordervars, savevars, counter, classes, yielded>>

\* The caller changes the list keys() returned.
MutateReturned ==
    /\ pc = "keys"
    /\ \E op \in {"append", "reverse", "clear"} :
          heap' = [heap EXCEPT ![got] =
                      CASE op = "append" -> Append(@, "extra")
                        [] op = "reverse" -> [i \in DOMAIN @ |-> @[Len(@) + 1 - i]]
                        [] op = "clear" -> <<>>]
    /\ pc' = "mutated"
    /\ UNCHANGED <<afterkeys, fields, ordervars, savevars, counter, classes, got, got_cls, yielded>>

\* list(iter(instance)) on an instance of class cls: __iter__ is
\* iter(list(self.keys())).  The caller has dropped the list it held.
IterCall ==
    /\ pc \in {"imported", "mutated"}
    /\ \E cls \in DOMAIN classes :
          LET r == keys_copy(heap, classes[cls].formnames)
          IN /\ yielded' = r.heap[r.id]
             /\ got_cls' = cls
    /\ got' = None
    /\ heap' = [i \in DOMAIN heap \ {RetId} |-> heap[i]]
    /\ pc' = "iterated"
    /\ UNCHANGED <<afterkeys, fields, ordervars, savevars, counter, classes>>

NextKeys == DefineClass \/ KeysCall \/ MutateReturned \/ IterCall

SpecKeys == InitKeys /\ [][NextKeys]_vars

\* ------------------------------------------ CombinedForm.__init__(*args, **kwargs)

\* A keyword name is modelled by the sequence of its parts between '__':
\* form_a__foo is <<"form_a", "foo">>, foo is <<"foo">>.  It has at most
\* MaxSegs parts, each a subform name or "foo".
MaxSegs == 2

KwargNames == UNION {[1..k -> Range(FormNames) \cup {"foo"}] : k \in 1..MaxSegs}

\* A call gives at most MaxArgs positional and MaxKwargs keyword arguments.
MaxArgs == 1

MaxKwargs == 2

RECURSIVE KwargDicts(_)
KwargDicts(n) ==
    IF n = 0 THEN {EmptyMap}
    ELSE KwargDicts(n - 1) \cup
         {SetItem(d, k, v) : d \in KwargDicts(n - 1), k \in KwargNames, v \in {"v1", "v2"}}

\* dict.update: the entries of other replace those of d.
Update(d, other) ==
    [k \in DOMAIN d \cup DOMAIN other |-> IF k \in DOMAIN other THEN other[k] ELSE d[k]]

\* The arguments a Subform can be declared with: Subform(formclass, *args, **kwargs).
SubformDecls ==
    [args : SeqsUpTo({"declared"}, MaxArgs),
     kwargs : {EmptyMap, SetItem(EmptyMap, <<"foo">>, "declared")}]

\* Subform.make_instance: what self.formclass is called with.
make_instance(self, args, kwargs) ==
    [args |-> self.args \o args, kwargs |-> Update(kwargs, self.kwargs)]

\* extract_subform_args: raw_argname.split('__', 1) is the first part and the
\* rest; the entries whose first part is a subform name are moved from
\* raw_kwargs into the dict of that subform.
extract_subform_args(raw_kwargs, subform_names) ==
    LET moved == {k \in DOMAIN raw_kwargs :
                     Len(k) > 1 /\ Head(k) \in Range(subform_names)}
    IN [subform_args |->
            [n \in {Head(k) : k \in moved} |->
                [a \in {Tail(k) : k \in {m \in moved : Head(m) = n}} |->
                    raw_kwargs[<<n>> \o a]]],
        raw_kwargs |-> [k \in DOMAIN raw_kwargs \ moved |-> raw_kwargs[k]]]

\* The loop of __init__ from subform number i on: kw is the dict of the
\* subform updated in place with kwargs, or kwargs itself.
RECURSIVE ConstructSubforms(_, _, _, _, _, _, _)
ConstructSubforms(names, i, dcl, args, kwargs, subform_args, md) ==
    IF i > Len(names) THEN md
    ELSE LET name == names[i]
             routed == name \in DOMAIN subform_args
             kw == IF routed THEN Update(subform_args[name], kwargs) ELSE kwargs
         IN ConstructSubforms(names, i + 1, dcl, args, kwargs,
                IF routed THEN SetItem(subform_args, name, kw) ELSE subform_args,
                SetItem(md, name, make_instance(dcl[name], args, kw)))

\* The class of the instance: Parent, declared with form_a and form_b.
CtorBody ==
    <<[name |-> FormNames[1], subform |-> TRUE],
      [name |-> FormNames[2], subform |-> TRUE]>>

CtorClass == IndexOf(ClassNames, "Parent")

InitCtor ==
    /\ pc = "declared"
    /\ counter = Len(CtorBody)
    /\ LET cf == MetaclassInit(1, <<Mixin>>, {}, <<>>, EmptyMap)
           base == <<[bases |-> <<Mixin>>, body |-> <<>>, formnames |-> 1,
                      forms |-> cf.forms]>>
           hp == SetItem(EmptyMap, 1, cf.formnames)
           built == MetaclassInit(CtorClass, <<Head(ClassNames)>>,
                                  ClassDict(CtorBody, 0, CtorClass), base, hp)
       IN /\ classes = Append(base, [bases |-> <<Head(ClassNames)>>, body |-> CtorBody,
                                     formnames |-> CtorClass, forms |-> built.forms])
          /\ heap = SetItem(hp, CtorClass, built.formnames)
    /\ got = None /\ got_cls = None /\ yielded = <<>>
    /\ decl \in [{st.name : st \in Range(CtorBody)} -> SubformDecls]
    /\ call_args = <<>>
    /\ call_kwargs = EmptyMap
    /\ made = EmptyMap
    /\ fields = [m \in Models |-> <<>>]
    /\ models = <<>> /\ result = NoResult /\ dep_model = None /\ deps = <<>>
    /\ NoForm
    /\ NoBound
    /\ NoCalls
    /\ NoDepth

\* CombinedForm.__init__(*args, **kwargs) on a new instance of the class.
Construct ==
    /\ pc = "declared"
    /\ \E args \in SeqsUpTo({"positional"}, MaxArgs), kwargs \in KwargDicts(MaxKwargs) :
          LET names == keys_copy(heap, classes[CtorClass].formnames).heap[RetId]
              ex == extract_subform_args(kwargs, names)
          IN /\ call_args' = args
             /\ call_kwargs' = kwargs
             /\ made' = ConstructSubforms(names, 1, decl, args, ex.raw_kwargs,
                                          ex.subform_args, EmptyMap)
    /\ pc' = "constructed"
    /\ UNCHANGED <<afterctor, fields, ordervars, savevars, keyvars, decl>>

NextCtor == Construct

SpecCtor == InitCtor /\ [][NextCtor]_vars

\* ------------------------------------------------------ CombinedForm.errors

\* A formset has at most MaxForms forms.
MaxForms == 2

\* form.errors: of a form a dict, field -> messages (here its set of keys);
\* of a formset a list with one such dict for each of its forms.
ErrorDicts == [kind : {"dict"}, fields : SUBSET {"foo_field", "bar_field"}, entries : {<<>>}]

ErrorLists == [kind : {"list"}, fields : {{}}, entries : SeqsUpTo(SUBSET {"b"}, MaxForms)]

NoErrors == [kind |-> None, fields |-> {}, entries |-> <<>>]

\* The subforms of an instance: forms and formsets.
BoundForms == [formset : {FALSE}, errors : ErrorDicts] \cup [formset : {TRUE}, errors : ErrorLists]

\* if form_errors: a dict or a list is true when it is not empty, None is not.
IsTrue(e) ==
    CASE e.kind = "dict" -> e.fields # {}
      [] e.kind = "list" -> e.entries # <<>>
      [] OTHER -> FALSE

\* any(form_errors) on the list of a formset.
any(e) == \E i \in DOMAIN e.entries : e.entries[i] # {}

\* errors without the test for formsets.
form_errors_as_given(form) == form.errors

\* Lines 229-236: form.errors, or None for a formset none of whose forms
\* has an error.
form_errors(form) ==
    IF form.formset /\ ~any(form.errors) THEN NoErrors ELSE form.errors

\* The loop of the errors property over iteritems(), from name number i on.
RECURSIVE CollectErrors(_, _, _, _)
CollectErrors(names, i, sf, errors) ==
    IF i > Len(names) THEN errors
    ELSE LET e == form_errors(sf[names[i]])
         IN CollectErrors(names, i + 1, sf,
                          IF IsTrue(e) THEN SetItem(errors, names[i], e) ELSE errors)

InitErrors ==
    /\ pc = "bound"
    /\ \E k \in 0..Len(FormNames) : bound \in [Range(SubSeq(FormNames, 1, k)) -> BoundForms]
    /\ errs = EmptyMap
    /\ fields = [m \in Models |-> <<>>]
    /\ models = <<>> /\ result = NoResult /\ dep_model = None /\ deps = <<>>
    /\ NoForm
    /\ NoClasses
    /\ NoInstance
    /\ NoCalls
    /\ NoDepth

\* The errors property of the instance.
GetErrors ==
    /\ pc = "bound"
    /\ errs' = CollectErrors(SubSeq(FormNames, 1, Cardinality(DOMAIN bound)), 1, bound, EmptyMap)
    /\ pc' = "errors"
    /\ UNCHANGED <<aftererrs, fields, ordervars, savevars, keyvars, ctorvars, bound>>

NextErrors == GetErrors

SpecErrors == InitErrors /\ [][NextErrors]_vars

\* ------------------------------- calls of order_by_dependency in progress

\* The call sites (threads, request handlers) that call
\* order_by_dependency on the same list.
CallSites == {"site1", "site2"}

\* A local dict shared by all calls.
module_dict(site) == "module"

\* Line 484, nodemap = {}: a new dict object, here named after the call
\* that made it.
new_dict(site) == site

\* The end of the call: its locals go, and with them the dict unless
\* another call refers to it.
Release(ds, id, cs, site) ==
    IF \E t \in DOMAIN cs \ {site} : cs[t].nodemap = id THEN ds
    ELSE [d \in DOMAIN ds \ {id} |-> ds[d]]

\* Lines 500-502 on a nodemap: the models by descending depth.
SortByDepth(nodemap) ==
    LET weighted == [i \in DOMAIN nodemap.keys |->
                        <<Depth(nodemap, nodemap.keys[i], {}), nodemap.keys[i]>>]
        sortedmodels == SortedReverse(weighted)
    IN IF \E i \in DOMAIN weighted : weighted[i][1] = Diverges
       THEN [status |-> "RecursionError", value |-> <<>>]
       ELSE [status |-> "returned",
             value |-> [i \in DOMAIN sortedmodels |-> sortedmodels[i][2]]]

IdleCall == [pc |-> "idle", i |-> 0, nodemap |-> None, outcome |-> NoResult]

InitCalls ==
    /\ pc = "calls"
    /\ fields \in SaveDeclarations
    /\ models \in SeqsUpTo(Models, MaxLen)
    /\ calls = [site \in CallSites |-> IdleCall]
    /\ dicts = EmptyMap
    /\ result = NoResult /\ dep_model = None /\ deps = <<>>
    /\ NoForm
    /\ NoClasses
    /\ NoInstance
    /\ NoBound
    /\ NoDepth

\* A call site calls order_by_dependency(models): lines 451-489, up to the
\* loop.
CallBegin(site) ==
    /\ calls[site].pc \in {"idle", "returned", "raised"}
    /\ calls' = [calls EXCEPT ![site] =
                    [pc |-> "loop", i |-> 1, nodemap |-> new_dict(site),
                     outcome |-> NoResult]]
    /\ dicts' = SetItem(dicts, new_dict(site), EmptyNodemap)
    /\ UNCHANGED <<aftercalls, fields, pc, ordervars, savevars, keyvars, ctorvars, errvars>>

\* One iteration of the loop of lines 491-497 in the call of the site.
CallLoop(site) ==
    /\ calls[site].pc = "loop"
    /\ calls[site].i <= Len(models)
    /\ dicts' = [dicts EXCEPT ![calls[site].nodemap] =
                    LoopBody(fields, @, models[calls[site].i], models)]
    /\ calls' = [calls EXCEPT ![site].i = @ + 1]
    /\ UNCHANGED <<aftercalls, fields, pc, ordervars, savevars, keyvars, ctorvars, errvars>>

\* Lines 500-502 in the call of the site: the sort, then the return or the
\* error that ends the call.
CallEnd(site) ==
    /\ calls[site].pc = "loop"
    /\ calls[site].i > Len(models)
    /\ LET outcome == SortByDepth(dicts[calls[site].nodemap])
       IN calls' = [calls EXCEPT ![site] =
                       [pc |-> IF outcome.status = "returned" THEN "returned" ELSE "raised",
                        i |-> 0, nodemap |-> None, outcome |-> outcome]]
    /\ dicts' = Release(dicts, calls[site].nodemap, calls, site)
    /\ UNCHANGED <<aftercalls, fields, pc, ordervars, savevars, keyvars, ctorvars, errvars>>

NextCalls == \E site \in CallSites : CallBegin(site) \/ CallLoop(site) \/ CallEnd(site)

SpecCalls == InitCalls /\ [][NextCalls]_vars

\* ------------------------------------------- the recursion of Node.depth

\* The interpreter ends a recursion deeper than its recursion limit with
\* RecursionError (sys.getrecursionlimit(), 1000 by default; here the
\* number of calls of Node.depth that can be in progress).
RecursionLimit == 5

\* A call of depth that looks no further when the node is on the stack.
depth_call_unless_active(nm, stk, key) ==
    Append(stk, [key |-> key, j |-> 1, best |-> 0,
                 dependents |-> IF \E f \in DOMAIN stk : stk[f].key = key
                                THEN <<>> ELSE NodeDependents(nm, key)])

\* A call of the depth property of the node of key: a new frame, which will
\* ask the depth of each of self.dependents in turn, keeping the largest.
depth_call(nm, stk, key) ==
    Append(stk, [key |-> key, j |-> 1, best |-> 0,
                 dependents |-> NodeDependents(nm, key)])

\* The value the innermost call of depth returns (lines 463-466).
DepthValue(frame) == IF Truthy(frame.dependents) THEN 1 + frame.best ELSE 0

InitDepth ==
    /\ pc = "called"
    /\ fields \in SaveDeclarations
    /\ models \in SeqsUpTo(Models, MaxLen)
    /\ result = NoResult /\ dep_model = None /\ deps = <<>>
    /\ graph = EmptyNodemap
    /\ weights = <<>>
    /\ frames = <<>>
    /\ NoForm
    /\ NoClasses
    /\ NoInstance
    /\ NoBound
    /\ NoCalls

\* Lines 484-497: the nodemap is built.
BuildGraph ==
    /\ pc = "called"
    /\ graph' = BuildNodemap(fields, EmptyNodemap, models, models)
    /\ pc' = "sorting"
    /\ UNCHANGED <<fields, models, result, dep_model, deps, savevars, keyvars,
                   ctorvars, errvars, callvars, weights, frames>>

\* Line 500: the generator given to sorted asks the depth of the next node.
NextNode ==
    /\ pc = "sorting"
    /\ frames = <<>>
    /\ Len(weights) < Len(graph.keys)
    /\ frames' = depth_call(graph, frames, graph.keys[Len(weights) + 1])
    /\ UNCHANGED <<fields, pc, ordervars, savevars, keyvars, ctorvars, errvars,
                   callvars, graph, weights>>

\* Line 464: the innermost call asks the depth of its next dependent, which
\* is one call more in progress, or RecursionError at the limit.
Descend ==
    /\ pc = "sorting"
    /\ frames # <<>>
    /\ LET top == frames[Len(frames)]
       IN /\ top.j <= Len(top.dependents)
          /\ IF Len(frames) < RecursionLimit
             THEN /\ frames' = depth_call(graph, frames, top.dependents[top.j])
                  /\ UNCHANGED <<pc, result>>
             ELSE /\ pc' = "raised"
                  /\ result' = [status |-> "RecursionError", value |-> <<>>]
                  /\ UNCHANGED frames
    /\ UNCHANGED <<fields, models, dep_model, deps, savevars, keyvars, ctorvars,
                   errvars, callvars, graph, weights>>

\* Lines 463-466: the innermost call has the depths of all its dependents
\* and returns, to the call that asked or to the generator.
Ascend ==
    /\ pc = "sorting"
    /\ frames # <<>>
    /\ LET top == frames[Len(frames)]
           rest == SubSeq(frames, 1, Len(frames) - 1)
       IN /\ top.j > Len(top.dependents)
          /\ IF rest = <<>>
             THEN /\ weights' = Append(weights, DepthValue(top))
                  /\ frames' = <<>>
             ELSE /\ frames' = [rest EXCEPT ![Len(rest)] =
                                  [@ EXCEPT !.j = @ + 1,
                                            !.best = Max({@, DepthValue(top)})]]
                  /\ UNCHANGED weights
    /\ UNCHANGED <<fields, pc, ordervars, savevars, keyvars, ctorvars, errvars,
                   callvars, graph>>

\* Lines 500-502: every depth is known; the sort, and the list returned.
ReturnSorted ==
    /\ pc = "sorting"
    /\ frames = <<>>
    /\ Len(weights) = Len(graph.keys)
    /\ LET sortedmodels == SortedReverse([i \in DOMAIN graph.keys |->
                                             <<weights[i], graph.keys[i]>>])
       IN result' = [status |-> "returned",
                     value |-> [i \in DOMAIN sortedmodels |-> sortedmodels[i][2]]]
    /\ pc' = "returned"
    /\ UNCHANGED <<fields, models, dep_model, deps, savevars, keyvars, ctorvars,
                   errvars, callvars, depthvars>>

NextDepth == BuildGraph \/ NextNode \/ Descend \/ Ascend \/ ReturnSorted

\* The step from "called" to "sorting", which is BuildGraph and no other.
Started == pc = "called" /\ pc' = "sorting"

\* The call runs on its own thread until it returns or raises: a step that
\* can be taken is taken.
SpecDepth ==
    /\ InitDepth
    /\ [][NextDepth]_vars
    /\ WF_pc(Started)
    /\ WF_vars(NextNode \/ Descend \/ Ascend \/ ReturnSorted)

\* ------------------------------------------------- the claims on the ordering

\* The set S the call was given, and "A has a Reference to B".
InputSet == Range(models)

References(flds, A, B) == B \in Range(flds[A])

\* The pairs <<A, B>> of S with a chain of References from A to B inside S.
RECURSIVE Chains(_, _, _)
Chains(flds, S, n) ==
    LET direct == {p \in S \X S : References(flds, p[1], p[2])}
    IN IF n <= 1 THEN direct
       ELSE LET prev == Chains(flds, S, n - 1)
            IN prev \cup {p \in S \X S :
                            \E mid \in S : <<p[1], mid>> \in prev /\ <<mid, p[2]>> \in direct}

AcyclicIn(flds, S) ==
    \A m \in S : <<m, m>> \notin Chains(flds, S, Cardinality(S))

\* The declarations with every Reference that leaves S, or starts outside S,
\* taken away.
InSetOnly(flds, S) ==
    [m \in DOMAIN flds |->
        IF m \in S THEN SelectSeq(flds[m], LAMBDA t : t \in S) ELSE <<>>]

\* depth as the claims define it, on the References inside S: 0 for a type
\* that no type of S references, else 1 + the largest depth of the types of S
\* that reference it.  Defined when the References inside S have no cycle.
RECURSIVE ClaimDepth(_, _, _)
ClaimDepth(flds, S, m) ==
    LET dependents == {d \in S : References(flds, d, m)}
    IN IF dependents = {} THEN 0
       ELSE 1 + Max({ClaimDepth(flds, S, d) : d \in dependents})

Returned == pc = "ordered" /\ result.status = "returned"

\* The call returned a list that is not empty, for an input set on which the
\* depth of the claims is defined.
ReturnedSome == Returned /\ result.value # <<>> /\ AcyclicIn(fields, InputSet)

\* C1: when the References inside the input set S have no cycle, the call
\* returns a sequence in which B stands earlier than A for all A, B of S
\* such that A has a Reference to B, whatever the order of the input.
C1_ReferencedFirst ==
    (pc = "ordered" /\ AcyclicIn(fields, InputSet)) =>
        /\ result.status = "returned"
        /\ \A A \in InputSet, B \in InputSet :
              References(fields, A, B) =>
                 /\ IndexOf(result.value, B) > 0
                 /\ IndexOf(result.value, B) < IndexOf(result.value, A)

\* C1's case: a chain of two References inside S, given in the wrong order
\* (the referencing type first), is returned with the referenced types first.
C1_Witness ==
    /\ pc = "ordered" /\ AcyclicIn(fields, InputSet)
    /\ \E A \in InputSet, B \in InputSet, C \in InputSet :
          /\ References(fields, A, B) /\ References(fields, B, C)
          /\ models = <<A, B, C>>
          /\ result.value = <<C, B, A>>

\* C2: the sequence returned holds every distinct type of the input exactly
\* once and no type that is not in the input (for an input with repeats and
\* with References to types outside it as well).
C2_ExactlyTheInput ==
    Returned =>
        /\ Range(result.value) = InputSet
        /\ Len(result.value) = Cardinality(InputSet)

\* C2's case: an input that repeats a type, one of whose types references a
\* type that is not in the input.
C2_Witness ==
    /\ Returned
    /\ Len(models) > Cardinality(InputSet)
    /\ \E A \in InputSet, X \in Models \ InputSet : References(fields, A, X)
    /\ Len(result.value) = Cardinality(InputSet)

\* C3: References to types outside the input set have no effect: the call
\* does exactly what it does on the same input when every Reference that
\* leaves the set, and every Reference of a type outside it, is taken away.
C3_ExternalsIgnored ==
    pc = "ordered" =>
        result = order_by_dependency(InSetOnly(fields, InputSet), models)

\* C3's case: a type of S references a type X outside S, and X in turn
\* references a type of S (a chain through the outside).
C3_Witness ==
    /\ Returned
    /\ Cardinality(InputSet) >= 2
    /\ \E A \in InputSet, B \in InputSet, X \in Models \ InputSet :
          /\ A # B
          /\ References(fields, A, X) /\ References(fields, X, B)
          /\ result.value = models

\* The depths, as the claims define depth, of the sequence returned.
ResultDepths == [i \in DOMAIN result.value |-> ClaimDepth(fields, InputSet, result.value[i])]

\* C4 as stated: a type of depth 0 sorts first and the type of the largest
\* depth sorts last.
C4_AsStated ==
    ReturnedSome =>
        /\ ResultDepths[1] = 0
        /\ ResultDepths[Len(result.value)] = Max(Range(ResultDepths))

\* C4 as amended: the types are returned by depth, largest first: the type of
\* the largest depth (the root that others point to) sorts first and a type
\* referenced by nothing in the set (depth 0) sorts last.
C4_LargestDepthFirst ==
    ReturnedSome =>
        /\ \A i \in DOMAIN ResultDepths, j \in DOMAIN ResultDepths :
              i < j => ResultDepths[i] >= ResultDepths[j]
        /\ ResultDepths[1] = Max(Range(ResultDepths))
        /\ ResultDepths[Len(result.value)] = 0

\* C4's case: depths 0, 1 and 2 all occur, and the input gave the type of
\* depth 0 first.
C4_Witness ==
    /\ ReturnedSome /\ Len(result.value) >= 3
    /\ ClaimDepth(fields, InputSet, models[1]) = 0
    /\ ResultDepths[1] >= 2
    /\ ResultDepths[Len(result.value)] = 0

\* C5: get_model_dependencies returns exactly the ForeignKey fields of the
\* model whose target is one of the candidates, for every collection of
\* candidates, the empty one (no field) included.
C5_ExactlyInCandidates ==
    pc = "dependencies" =>
        deps = SelectSeq(MetaFields(fields, dep_model),
                         LAMBDA f : f.fk /\ f.to \in Range(models))

\* ------------------------------------------------------ the claims on save

FormNamesOf(fs) == Range(keys(fs))

ModelOf(name) == forms[FormIndex(name)].model

\* The subform's save was called (by this save).
Called(name) == \E i \in DOMAIN log : log[i].op = "form.save" /\ log[i].on = name

TimesCalled(name) ==
    Cardinality({i \in DOMAIN log : log[i].op = "form.save" /\ log[i].on = name})

\* The instances the subform produced.
ProducedBy(name) == IF Called(name) THEN Range(FormSave(forms, name).items) ELSE {}

\* C6 as stated: after save() on a valid form, for all subforms a and b such
\* that the model of a has a Reference field r to the model of b, every
\* instance a produced has r set to the object the save of b returned.
C6_LinkedToSubformResult ==
    pc = "returned" =>
        \A a \in FormNamesOf(forms), b \in FormNamesOf(forms) :
            \A r \in DOMAIN fields[ModelOf(a)] :
                fields[ModelOf(a)][r] = ModelOf(b) =>
                    \A o \in ProducedBy(a) :
                        /\ Called(b)
                        /\ <<o, r>> \in DOMAIN attrs
                        /\ attrs[<<o, r>>] = FormSave(forms, b)

\* The position in the log of the call of the subform's save that produced
\* instances of model B (0: none yet).
SavedAt(B) ==
    LET at == {i \in DOMAIN log : log[i].op = "form.save" /\ ModelOf(log[i].on) = B}
    IN IF at = {} THEN 0 ELSE Max(at)

\* Every instance the saved subform of model B produced was written before
\* position j of the log.
WrittenBefore(B, j) ==
    /\ SavedAt(B) > 0
    /\ \A o \in Range(FormSave(forms, log[SavedAt(B)].on).items) :
          \E i \in 1..(j - 1) : log[i].op = "inst.save" /\ log[i].on = o

\* The models of save_order that model A references.
ReferencedInSet(A) == {B \in Range(save_order) : References(fields, A, B)}

C8_DictOfAllSubforms ==
    (pc = "returned" /\ main_form = None /\ main_attr = None) =>
        /\ retval.dict
        /\ DOMAIN retval.value = FormNamesOf(forms)
        /\ \A n \in FormNamesOf(forms) :
              /\ n \in DOMAIN retval.value
              /\ retval.value[n] = FormSave(forms, n)
              /\ TimesCalled(n) = 1

\* save(main_form=...) has ended, by a return or by the KeyError of line 427.
SaveEnded == pc \in {"returned", "KeyError main_form"}

\* The name save uses: the attribute in place of an argument None.
ChosenMainForm == IF main_form = None THEN main_attr ELSE main_form

\* C9 as stated: if the argument is None the attribute is used in its place;
\* if the resulting name is truthy, save() returns only the save result of the
\* subform with that name; if the argument is a falsy value that is not None,
\* save() returns the dict of all results even when the attribute is set.
C9_MainFormSelectsResult ==
    SaveEnded =>
        /\ ChosenMainForm \in FormNamesOf(forms) =>
              /\ pc = "returned"
              /\ ~retval.dict
              /\ retval.value = FormSave(forms, ChosenMainForm)
        /\ main_form = Falsy =>
              /\ pc = "returned"
              /\ retval.dict
              /\ retval.value = retval_map

\* C10: save(commit=False) writes nothing (no save() of an instance, no
\* save_m2m() of a subform) and still links the instances to their
\* dependencies and returns them; every subform's own save is called with
\* commit=False in both modes; instances are written only under commit=True.
C10_CommitFalseWritesNothing ==
    /\ \A i \in DOMAIN log :
          /\ log[i].op = "form.save" => log[i].commit = FALSE
          /\ log[i].op \in {"inst.save", "save_m2m"} => commit
    /\ (pc = "returned" /\ ~commit) =>
          /\ \A i \in DOMAIN log : log[i].op = "form.save"
          /\ \A n \in DOMAIN retval_map :
                /\ retval_map[n] = FormSave(forms, n)
                /\ inst_map[ModelOf(n)] = FormSave(forms, n)
                /\ \A r \in DOMAIN fields[ModelOf(n)], o \in Range(retval_map[n].items) :
                      fields[ModelOf(n)][r] \in Range(save_order) =>
                          /\ <<o, r>> \in DOMAIN attrs
                          /\ attrs[<<o, r>>] = inst_map[fields[ModelOf(n)][r]]
          /\ IF retval.dict THEN retval.value = retval_map
             ELSE retval.value = retval_map[ChosenMainForm]

\* C10's case: save(commit=False) of a formset whose model references the
\* model of a ModelForm has returned the dict: both instances of the formset
\* are linked and nothing but the two subform saves was called.
C10_Witness ==
    /\ pc = "returned" /\ ~commit /\ retval.dict
    /\ Len(forms) = 2
    /\ forms[1].kind = "formset" /\ forms[2].kind = "form"
    /\ DOMAIN attrs = {<<<<"form_a", 1>>, 1>>, <<<<"form_a", 2>>, 1>>}
    /\ attrs[<<<<"form_a", 1>>, 1>>] = retval.value["form_b"]
    /\ Len(log) = 2

\* ---------------------------------------------------- the claims on keys()

\* The first base of the class that is a CombinedForm class (0: none).
FormParent(cls) ==
    LET fb == SelectSeq(classes[cls].bases, LAMBDA b : b # Mixin)
    IN IF fb = <<>> THEN 0 ELSE IndexOf(ClassNames, Head(fb))

\* The names of the Subform statements of the class body, in body order.
DeclaredNames(cls) ==
    LET subs == SelectSeq(classes[cls].body, LAMBDA st : st.subform)
    IN [i \in DOMAIN subs |-> subs[i].name]

\* The names of the parent, then those the class body declares.
RECURSIVE ExpectedNames(_)
ExpectedNames(cls) ==
    (IF FormParent(cls) = 0 THEN <<>> ELSE ExpectedNames(FormParent(cls)))
    \o DeclaredNames(cls)

\* C11: keys() and iteration yield the subform names in the order of the
\* Subform statements of the class body, the names of the parent class
\* first; keys() returns a copy, so whatever the caller does to the list
\* returned, _formnames and every later keys() or iteration are unchanged.
C11_KeysInDeclarationOrder ==
    /\ \A cls \in DOMAIN classes : heap[classes[cls].formnames] = ExpectedNames(cls)
    /\ pc = "keys" => heap[got] = ExpectedNames(got_cls)
    /\ pc = "iterated" => yielded = ExpectedNames(got_cls)

\* C11's case: a class whose body declares form_b before form_a, with a
\* parent that declares form_c, has been iterated over after a caller
\* changed a list that keys() returned.
C11_Witness ==
    /\ pc = "iterated" /\ got_cls = 3
    /\ Len(classes) = 3 /\ FormParent(3) = 2 /\ DeclaredNames(2) = <<"form_c">>
    /\ DeclaredNames(3) = <<"form_b", "form_a">>
    /\ yielded = <<"form_c", "form_b", "form_a">>

\* ------------------------------------------- the claims on the construction

IsSuffix(s, t) == Len(s) <= Len(t) /\ SubSeq(t, Len(t) - Len(s) + 1, Len(t)) = s

SubformNames == Range(heap[classes[CtorClass].formnames])

\* The keyword name is <name>__<arg> with <name> a subform name.
Prefixed(k) == Len(k) > 1 /\ Head(k) \in SubformNames

\* C12: a keyword argument <name>__<arg>, <name> a subform name, reaches the
\* constructor of subform <name> as <arg> with its value, and no other
\* subform, under either key (a subform may still get <arg> from an argument
\* of its own); every other keyword argument reaches every subform under its
\* own key with its value, and the positional arguments reach every subform.
C12_RoutedBySubformName ==
    pc = "constructed" =>
        \A n \in SubformNames :
            /\ IsSuffix(call_args, made[n].args)
            /\ \A k \in DOMAIN call_kwargs :
                  IF Prefixed(k) /\ Head(k) = n
                  THEN /\ Tail(k) \in DOMAIN made[n].kwargs
                       /\ made[n].kwargs[Tail(k)] = call_kwargs[k]
                  ELSE IF Prefixed(k)
                  THEN /\ k \notin DOMAIN made[n].kwargs
                       /\ Tail(k) \in DOMAIN made[n].kwargs =>
                             \/ Tail(k) \in DOMAIN call_kwargs
                             \/ Tail(k) \in DOMAIN decl[n].kwargs
                             \/ <<n>> \o Tail(k) \in DOMAIN call_kwargs
                  ELSE /\ k \in DOMAIN made[n].kwargs
                       /\ made[n].kwargs[k] = call_kwargs[k]

\* ------------------------------------------------------ the claims on errors

\* The subform has errors: a form, a field with messages; a formset, a form
\* with such a field.
HasErrors(form) ==
    IF form.formset THEN \E i \in DOMAIN form.errors.entries : form.errors.entries[i] # {}
    ELSE form.errors.fields # {}

\* C13: errors maps exactly the names of the subforms that have errors, each
\* to the errors of that subform; a subform without errors and a formset
\* whose entries are all empty have no key, so without subform errors the
\* mapping is empty.
C13_ExactlySubformsWithErrors ==
    pc = "errors" =>
        /\ DOMAIN errs = {n \in DOMAIN bound : HasErrors(bound[n])}
        /\ \A n \in DOMAIN errs : errs[n] = bound[n].errors
        /\ (\A n \in DOMAIN bound : ~HasErrors(bound[n])) => errs = EmptyMap

\* C13's case: errors was read on an instance with a form that has errors,
\* a formset of two forms without errors and a formset with an error in its
\* second form only.
C13_Witness ==
    /\ pc = "errors"
    /\ DOMAIN bound = Range(FormNames)
    /\ ~bound["form_a"].formset /\ bound["form_a"].errors.fields = {"foo_field"}
    /\ bound["form_b"].formset /\ bound["form_b"].errors.entries = <<{}, {}>>
    /\ bound["form_c"].formset /\ bound["form_c"].errors.entries = <<{}, {"b"}>>
    /\ DOMAIN errs = {"form_a", "form_c"}

\* -------------------------------------------- the claims on calls in progress

\* What the calls in progress and the finished calls show of each other:
\* a finished call has the outcome of a call made alone, a call in its loop
\* has in its nodemap what its own iterations put there, and no two calls
\* refer to the same nodemap.
CallsIsolated ==
    /\ \A s \in DOMAIN calls :
          /\ calls[s].pc \in {"returned", "raised"} =>
                calls[s].outcome = order_by_dependency(fields, models)
          /\ calls[s].pc = "loop" =>
                /\ calls[s].nodemap \in DOMAIN dicts
                /\ dicts[calls[s].nodemap] =
                      BuildNodemap(fields, EmptyNodemap,
                                   SubSeq(models, 1, calls[s].i - 1), models)
    /\ \A s, t \in DOMAIN calls :
          s # t /\ calls[s].nodemap # None => calls[s].nodemap # calls[t].nodemap

\* C14: order_by_dependency keeps nothing between calls and leaves its
\* input as it was: calls on the same list, one after another or
\* interleaved, each have the outcome of a call made alone, each on a
\* nodemap of its own that no other call reads or writes.
C14_CallsIndependent ==
    /\ []CallsIsolated
    /\ [][models' = models /\ fields' = fields]_vars

\* C14's case: one call has returned an ordering of three models while
\* another, begun before that return, is in the middle of its loop.
C14_Witness ==
    /\ pc = "calls"
    /\ calls["site1"].pc = "returned" /\ Len(calls["site1"].outcome.value) = 3
    /\ calls["site2"].pc = "loop" /\ calls["site2"].i = 3
    /\ SumLen(fields, Models) = 2

\* ------------------------------------------------ the claims on termination

\* C15: on an input whose references inside the input set have no cycle the
\* call ends by returning an ordering and raises nothing; on an input with
\* such a cycle, a model that references itself included, it returns no
\* ordering: the recursion of depth goes as deep as the interpreter lets it
\* and the call ends in RecursionError, not in an error of its own.
C15_ReturnsUnlessCyclic ==
    /\ <>(pc \in {"returned", "raised"})
    /\ [](AcyclicIn(fields, InputSet) => pc # "raised")
    /\ [](~AcyclicIn(fields, InputSet) => pc # "returned")
    /\ [](pc = "returned" => result = order_by_dependency(fields, models))
    /\ [](pc = "raised" => /\ result = order_by_dependency(fields, models)
                           /\ result.status = "RecursionError"
                           /\ Len(frames) = RecursionLimit)

\* C15's case: a call on an input with a model that references itself has
\* ended in RecursionError with the recursion at the limit.
C15_Witness ==
    /\ pc = "raised"
    /\ \E m \in InputSet : m \in Range(fields[m])
    /\ Len(frames) = RecursionLimit
    /\ result.status = "RecursionError"

====
